---- MODULE Spec2Model ----
(***************************************************************************)
(* Model of the compiler invocation harness (api/utils/compiler.py,        *)
(* CompilerInvoker) and of the /compile route that calls it (api/app.py,   *)
(* compile_code).  One request is served at a time; the compiler process   *)
(* and its descendants are the environment.                                *)
(*                                                                         *)
(* Text (stdout, stderr, messages) is a sequence of pieces; a piece is a   *)
(* run of characters that the code never cuts.  Optional values are        *)
(* sequences of length at most one: <<>> is Python's None.                 *)
(***************************************************************************)
EXTENDS Integers, Sequences, FiniteSets, TLC

\* ------------------------------------------------------------------ bounds
MaxStderrLen == 1
MaxExitCode == 1
MaxSignal == 1

\* --------------------------------------------------------------- constants
DefaultTimeout == 30
MAX_SOURCE_SIZE == 102400
Sentinel == -1

None == <<>>
Some(v) == <<v>>

\* ------------------------------------------------------------ input domains
\* Pieces the compiler may write to its stderr (blanks inside a line are the
\* matter of the texts given to _parse_errors on its own).
ErrPieces == {"e", "\n", "Timeout"}
\* Pieces the compiler may write to its stdout.
OutPieces == {"o"}

RECURSIVE SeqsUpTo(_, _)
SeqsUpTo(S, n) ==
    IF n = 0 THEN {<<>>}
    ELSE LET shorter == SeqsUpTo(S, n - 1)
         IN  shorter \cup {Append(s, x) : s \in {t \in shorter : Len(t) = n - 1}, x \in S}

StderrTexts == SeqsUpTo(ErrPieces, MaxStderrLen)
StdoutTexts == SeqsUpTo(OutPieces, 1)

\* What subprocess reports for a process that ended: the exit status, or the
\* negated signal number when a signal ended it.
ReturnCodes == (0..MaxExitCode) \cup {-s : s \in 1..MaxSignal}

\* The dump files of a workspace.
JsonDumps == {"tokens.json", "ast.json"}
TextDumps == {"assembly.s", "executable.hex"}
DumpFiles == JsonDumps \cup TextDumps

\* A file of the workspace: missing, present but not openable (a directory, no
\* permission), present with bytes that are not UTF-8, or present with text.
Absent == [st |-> "absent", text |-> ""]
Unreadable == [st |-> "unreadable", text |-> ""]
Undecodable == [st |-> "undecodable", text |-> ""]
TextFile(t) == [st |-> "ok", text |-> t]

JsonTexts == {"{\"t\":1}", "null", "{\"t\":"}
AsmTexts == {"mov"}
FileStates(f) ==
    {Unreadable, Undecodable}
        \cup {TextFile(t) : t \in IF f \in JsonDumps THEN JsonTexts ELSE AsmTexts}

\* The request bodies of POST /compile.
Sources ==
    {[len |-> n, blank |-> b, encodable |-> e] :
        n \in {0, MAX_SOURCE_SIZE, MAX_SOURCE_SIZE + 1}, b \in BOOLEAN, e \in BOOLEAN}
Bodies ==
    {[json |-> j, field |-> f, src |-> s] :
        j \in BOOLEAN, f \in {"source", "code"},
        s \in {x \in Sources : (x.len = 0 => x.blank /\ x.encodable)
                               /\ (x.blank => x.encodable)}}

VARIABLES
    pc,          \* position of the request handler
    binary,      \* the compiler binary on disk: "ok", "missing", "noexec"
    body,        \* the request body being served
    wsExists,    \* the workspace directory exists
    srcWritten,  \* the source file has been written into the workspace
    files,       \* the dump files of the workspace
    procAlive,   \* the compiler process is running
    descAlive,   \* a descendant of the compiler process is running
    completed,   \* what subprocess.run returned: <<>> or <<CompletedProcess>>
    result,      \* what compile returned: <<>> or <<dict>>
    raised,      \* the exception compile raised: "none" or its class
    outcome,     \* how the invocation went
    response,    \* the HTTP response: <<>> or <<[status, body]>>
    fn,          \* the function applied on its own: "none" or its name
    arg,         \* the argument it is applied to
    ret,         \* what it returned: <<>> or <<value>>
    inv,         \* the invocations that share one invoker
    dirs,        \* the directories under the temporary root
    beh,         \* what the compiler binary does with each source text
    invoker,     \* the fields of the shared CompilerInvoker object
    expired      \* the TimeoutExpired that was raised: <<>> or <<[stdout, stderr]>>

\* the state of the one-request model
main == <<pc, binary, body, wsExists, srcWritten, files, procAlive, descAlive,
          completed, result, raised, outcome, response, expired>>
\* the state of a function applied on its own
call == <<fn, arg, ret>>
\* the state of the invocations that run side by side
shared == <<inv, dirs, beh, invoker>>

vars == <<main, call, shared>>


\* ------------------------------------------------------------------- text
IsSpace(p) == p \in {" ", "\n"}

RECURSIVE LStrip(_)
LStrip(s) == IF s # <<>> /\ IsSpace(Head(s)) THEN LStrip(Tail(s)) ELSE s

RECURSIVE RStrip(_)
RStrip(s) ==
    IF s # <<>> /\ IsSpace(s[Len(s)]) THEN RStrip(SubSeq(s, 1, Len(s) - 1)) ELSE s

\* str.strip()
Strip(s) == RStrip(LStrip(s))

\* str.split('\n')
RECURSIVE SplitLines(_)
SplitLines(s) ==
    IF \E i \in 1..Len(s) : s[i] = "\n"
    THEN LET i == CHOOSE k \in 1..Len(s) :
                      s[k] = "\n" /\ \A j \in 1..(k - 1) : s[j] # "\n"
         IN  <<SubSeq(s, 1, i - 1)>> \o SplitLines(SubSeq(s, i + 1, Len(s)))
    ELSE <<s>>

RECURSIVE StripNonEmpty(_)
StripNonEmpty(lines) ==
    IF lines = <<>> THEN <<>>
    ELSE IF Strip(Head(lines)) # <<>>
         THEN <<Strip(Head(lines))>> \o StripNonEmpty(Tail(lines))
         ELSE StripNonEmpty(Tail(lines))

\* a parse that trims the lines but keeps the blank ones
ParseErrorsKeepBlank(stderr) ==
    IF Strip(stderr) = <<>> THEN <<>>
    ELSE [i \in 1..Len(SplitLines(stderr)) |-> Strip(SplitLines(stderr)[i])]

\* CompilerInvoker._parse_errors
ParseErrors(stderr) ==
    IF Strip(stderr) = <<>> THEN <<>> ELSE StripNonEmpty(SplitLines(stderr))

\* str.lower() on a piece
Lower(p) ==
    CASE p = "Timeout" -> "timeout"
      [] p = "Compilation " -> "compilation "
      [] p = "Unexpected error: " -> "unexpected error: "
      [] p = "[Errno 2] No such file or directory: " -> "[errno 2] no such file or directory: "
      [] p = "[Errno 13] Permission denied: " -> "[errno 13] permission denied: "
      [] OTHER -> p

\* "timeout" in str(errors).lower()
MentionsTimeout(errors) ==
    \E i \in 1..Len(errors) : \E j \in 1..Len(errors[i]) : Lower(errors[i][j]) = "timeout"

\* ------------------------------------------------------------- exceptions
CompilerPath == "bin/mycc"

\* str(e) for the exceptions the invocation can meet
ExcText(exc) ==
    CASE exc = "FileNotFoundError" -> <<"[Errno 2] No such file or directory: ", CompilerPath>>
      [] exc = "PermissionError" -> <<"[Errno 13] Permission denied: ", CompilerPath>>
      [] exc = "UnicodeDecodeError" -> <<"'utf-8' codec can't decode byte">>
      [] OTHER -> <<exc>>

\* isinstance(e, ValueError)
IsValueError(exc) == exc \in {"ValueError", "UnicodeEncodeError", "UnicodeDecodeError"}

\* --------------------------------------------------------- reading dumps
\* A read either returns an optional value or lets an exception escape.
Returned(v) == [exc |-> "none", val |-> v]
Escaped(e) == [exc |-> e, val |-> None]

\* json.load on the text of a file
JsonLoad(t) ==
    CASE t = "{\"t\":1}" -> [ok |-> TRUE, val |-> Some([t |-> 1])]
      [] t = "{\"t\":2}" -> [ok |-> TRUE, val |-> Some([t |-> 2])]
      [] t = "null" -> [ok |-> TRUE, val |-> None]
      [] OTHER -> [ok |-> FALSE, val |-> None]

\* CompilerInvoker._read_json_file
ReadJsonFile(f) ==
    IF f.st = "absent" THEN Returned(None)
    ELSE IF f.st = "unreadable" THEN Returned(None)
    ELSE IF f.st = "undecodable" THEN Escaped("UnicodeDecodeError")
    ELSE IF JsonLoad(f.text).ok THEN Returned(JsonLoad(f.text).val)
    ELSE Returned(None)

\* CompilerInvoker._read_text_file
ReadTextFile(f) ==
    IF f.st = "absent" THEN Returned(None)
    ELSE IF f.st = "unreadable" THEN Returned(None)
    ELSE IF f.st = "undecodable" THEN Escaped("UnicodeDecodeError")
    ELSE Returned(Some(f.text))

\* ----------------------------------------------------------------- results
\* a success test that only rules out the sentinel
ExitSuccessNotSentinel(returncode) == returncode # Sentinel

\* compile: "success = result.returncode == 0"
ExitSuccess(returncode) == returncode = 0

\* the dict built after the process ended (compile, "return {...}")
ExitResult(cp, tokens, ast, assembly, hex) ==
    [success |-> ExitSuccess(cp.returncode),
     tokens |-> tokens, ast |-> ast, assembly |-> assembly, hex |-> hex,
     errors |-> ParseErrors(cp.stderr),
     stdout |-> cp.stdout, stderr |-> cp.stderr,
     return_code |-> cp.returncode]

\* a timeout result that reports the timeout as an ordinary failed exit
TimeoutResultAsExit(timeout) ==
    [success |-> FALSE,
     tokens |-> None, ast |-> None, assembly |-> None, hex |-> None,
     errors |-> <<>>,
     stdout |-> <<>>, stderr |-> <<>>,
     return_code |-> 1]

\* the dict built by "except subprocess.TimeoutExpired"
TimeoutResult(timeout) ==
    [success |-> FALSE,
     tokens |-> None, ast |-> None, assembly |-> None, hex |-> None,
     errors |-> << <<"Compilation ", "timeout", " after ", ToString(timeout), " seconds">> >>,
     stdout |-> <<>>, stderr |-> <<>>,
     return_code |-> Sentinel]

\* a fault result that passes the text of the exception on as the only error
UnexpectedResultBare(exc) ==
    [success |-> FALSE,
     tokens |-> None, ast |-> None, assembly |-> None, hex |-> None,
     errors |-> <<ExcText(exc)>>,
     stdout |-> <<>>, stderr |-> ExcText(exc),
     return_code |-> Sentinel]

\* the dict built by "except Exception as e"
UnexpectedResult(exc) ==
    [success |-> FALSE,
     tokens |-> None, ast |-> None, assembly |-> None, hex |-> None,
     errors |-> << <<"Unexpected error: ">> \o ExcText(exc) >>,
     stdout |-> <<>>, stderr |-> ExcText(exc),
     return_code |-> Sentinel]

\* The four reads in the order of the code; the first escaping exception
\* abandons the rest and reaches "except Exception".
CollectResult(cp, fs) ==
    LET tokens == ReadJsonFile(fs["tokens.json"])
        ast == ReadJsonFile(fs["ast.json"])
        assembly == ReadTextFile(fs["assembly.s"])
        hex == ReadTextFile(fs["executable.hex"])
    IN  IF tokens.exc # "none" THEN UnexpectedResult(tokens.exc)
        ELSE IF ast.exc # "none" THEN UnexpectedResult(ast.exc)
        ELSE IF assembly.exc # "none" THEN UnexpectedResult(assembly.exc)
        ELSE IF hex.exc # "none" THEN UnexpectedResult(hex.exc)
        ELSE ExitResult(cp, tokens.val, ast.val, assembly.val, hex.val)

\* ------------------------------------------------------------ HTTP layer
HttpResponse(status, keys, success, error, r) ==
    [status |-> status, keys |-> keys, success |-> success, error |-> error,
     tokens |-> IF "tokens" \in keys THEN r.tokens ELSE None,
     ast |-> IF "ast" \in keys THEN r.ast ELSE None,
     assembly |-> IF "assembly" \in keys THEN r.assembly ELSE None,
     hexdump |-> IF "hexdump" \in keys THEN r.hex ELSE None,
     stdout |-> IF "logs" \in keys THEN r.stdout ELSE <<>>,
     stderr |-> IF "logs" \in keys THEN r.stderr ELSE <<>>]

\* a response that carries only success and error
ErrorResponse(status, msg) ==
    HttpResponse(status, {"success", "error"}, FALSE, Some(msg), UnexpectedResult("none"))

\* compile_code: "Check for timeout specifically"
LooksLikeTimeout(r) == r.return_code = Sentinel /\ MentionsTimeout(r.errors)

\* a mapping that exposes the last error instead of the first
RespondToLastError(r) ==
    IF LooksLikeTimeout(r)
    THEN HttpResponse(408, {"success", "error", "logs"}, FALSE, Some(r.errors[Len(r.errors)]), r)
    ELSE IF r.success
    THEN HttpResponse(200, {"success", "tokens", "ast", "assembly", "hexdump", "logs"},
                      TRUE, None, r)
    ELSE HttpResponse(400, {"success", "error", "tokens", "ast", "assembly", "logs"}, FALSE,
                      Some(IF r.errors # <<>> THEN r.errors[Len(r.errors)]
                                              ELSE <<"Compilation failed">>),
                      r)

\* compile_code, from the return of compiler.compile to the response
RespondTo(r) ==
    IF LooksLikeTimeout(r)
    THEN HttpResponse(408, {"success", "error", "logs"}, FALSE, Some(r.errors[1]), r)
    ELSE IF r.success
    THEN HttpResponse(200, {"success", "tokens", "ast", "assembly", "hexdump", "logs"},
                      TRUE, None, r)
    ELSE HttpResponse(400, {"success", "error", "tokens", "ast", "assembly", "logs"}, FALSE,
                      Some(IF r.errors # <<>> THEN r.errors[1] ELSE <<"Compilation failed">>),
                      r)

\* compile_code, the except clauses
RespondToException(exc) ==
    IF IsValueError(exc)
    THEN ErrorResponse(400, <<"Invalid JSON in request body: ">> \o ExcText(exc))
    ELSE IF exc = "FileNotFoundError"
    THEN ErrorResponse(500, <<"Compiler binary not found: ">> \o ExcText(exc))
    ELSE ErrorResponse(500, <<"Internal server error: ">> \o ExcText(exc))

\* compile_code, the checks on the parsed body; <<>> when the body passes
Rejection(b) ==
    IF b.field # "source" THEN Some(<<"Missing \"source\" field in request body">>)
    ELSE IF b.src.len = 0 \/ b.src.blank THEN Some(<<"Source code cannot be empty">>)
    ELSE IF b.src.len > MAX_SOURCE_SIZE THEN Some(<<"Source code too large">>)
    ELSE None

\* ------------------------------------------------------------------- state
NoFiles == [f \in DumpFiles |-> Absent]

\* nothing is applied on its own
NoCall == fn = "none" /\ arg = <<>> /\ ret = <<>>
\* no invocation runs side by side with another
NoShared == inv = <<>> /\ dirs = <<>> /\ beh = <<>> /\ invoker = <<>>

BinaryStates == {"ok", "missing", "noexec"}

Init ==
    /\ NoCall
    /\ NoShared
    /\ pc = "unconstructed"
    /\ binary \in BinaryStates
    /\ body = <<>>
    /\ wsExists = FALSE
    /\ srcWritten = FALSE
    /\ files = NoFiles
    /\ procAlive = FALSE
    /\ descAlive = FALSE
    /\ completed = <<>>
    /\ result = <<>>
    /\ raised = "none"
    /\ outcome = "none"
    /\ response = <<>>
    /\ expired = <<>>

\* a constructor that stores the path without looking at the file
ConstructUnchecked ==
    /\ pc = "unconstructed"
    /\ pc' = "idle"
    /\ UNCHANGED <<call, shared, expired>>
    /\ UNCHANGED <<binary, body, wsExists, srcWritten, files, procAlive, descAlive,
                   completed, result, raised, outcome, response>>

\* app.py: "compiler = CompilerInvoker(Config.COMPILER_PATH)" with a binary
\* that exists and is executable
Construct ==
    /\ pc = "unconstructed"
    /\ binary = "ok"
    /\ pc' = "idle"
    /\ UNCHANGED <<call, shared, expired>>
    /\ UNCHANGED <<binary, body, wsExists, srcWritten, files, procAlive, descAlive,
                   completed, result, raised, outcome, response>>

\* CompilerInvoker.__init__ raises FileNotFoundError or PermissionError: the
\* import of app.py fails and no route is ever served
ConstructFails ==
    /\ pc = "unconstructed"
    /\ binary # "ok"
    /\ pc' = "init_failed"
    /\ UNCHANGED <<call, shared, expired>>
    /\ UNCHANGED <<binary, body, wsExists, srcWritten, files, procAlive, descAlive,
                   completed, result, raised, outcome, response>>

\* The binary is replaced, removed or loses its execute bit between requests
\* (it is read only when the process is launched).
BinaryChanges(b) ==
    /\ pc = "idle"
    /\ b # binary
    /\ binary' = b
    /\ UNCHANGED <<call, shared, expired>>
    /\ UNCHANGED <<pc, body, wsExists, srcWritten, files, procAlive, descAlive,
                   completed, result, raised, outcome, response>>

\* compile_code: the body is not JSON.  request.get_json either returns None
\* (answered 400) or raises an HTTP exception that "except Exception" turns
\* into 500, depending on the installed framework.
ReceiveNotJson(b, status) ==
    /\ pc = "idle"
    /\ ~b.json
    /\ body' = Some(b)
    /\ response' = Some(ErrorResponse(status, <<"Invalid JSON in request body">>))
    /\ outcome' = "rejected"
    /\ pc' = "responded"
    /\ UNCHANGED <<call, shared, expired>>
    /\ UNCHANGED <<binary, wsExists, srcWritten, files, procAlive, descAlive,
                   completed, result, raised>>

\* compile_code: a JSON body that fails a check is answered 400
ReceiveInvalid(b) ==
    /\ pc = "idle"
    /\ b.json
    /\ Rejection(b) # None
    /\ body' = Some(b)
    /\ response' = Some(ErrorResponse(400, Rejection(b)[1]))
    /\ outcome' = "rejected"
    /\ pc' = "responded"
    /\ UNCHANGED <<call, shared, expired>>
    /\ UNCHANGED <<binary, wsExists, srcWritten, files, procAlive, descAlive,
                   completed, result, raised>>

\* compile_code: a JSON body that passes the checks reaches compiler.compile
ReceiveValid(b) ==
    /\ pc = "idle"
    /\ b.json
    /\ Rejection(b) = None
    /\ body' = Some(b)
    /\ pc' = "validated"
    /\ UNCHANGED <<call, shared, expired>>
    /\ UNCHANGED <<binary, wsExists, srcWritten, files, procAlive, descAlive,
                   completed, result, raised, outcome, response>>

\* compile: tempfile.TemporaryDirectory() creates the workspace
Acquire ==
    /\ pc = "validated"
    /\ wsExists' = TRUE
    /\ pc' = "acquired"
    /\ UNCHANGED <<call, shared, expired>>
    /\ UNCHANGED <<binary, body, srcWritten, files, procAlive, descAlive,
                   completed, result, raised, outcome, response>>

\* compile: tempfile.TemporaryDirectory() cannot create the directory
AcquireFails(exc) ==
    /\ pc = "validated"
    /\ raised' = exc
    /\ outcome' = "acquire_failed"
    /\ pc' = "raised"
    /\ UNCHANGED <<call, shared, expired>>
    /\ UNCHANGED <<binary, body, wsExists, srcWritten, files, procAlive, descAlive,
                   completed, result, response>>

\* compile: source_file.write_text(source_code)
WriteSource ==
    /\ pc = "acquired"
    /\ body[1].src.encodable
    /\ srcWritten' = TRUE
    /\ pc' = "written"
    /\ UNCHANGED <<call, shared, expired>>
    /\ UNCHANGED <<binary, body, wsExists, files, procAlive, descAlive,
                   completed, result, raised, outcome, response>>

\* a failing write that leaves the workspace behind
WriteSourceFailsLeak(exc) ==
    /\ pc = "acquired"
    /\ IF body[1].src.encodable THEN exc \in {"OSError", "FileNotFoundError"}
                                ELSE exc = "UnicodeEncodeError"
    /\ raised' = exc
    /\ outcome' = "write_failed"
    /\ pc' = "raised"
    /\ UNCHANGED <<call, shared, expired>>
    /\ UNCHANGED <<binary, body, wsExists, srcWritten, files, procAlive, descAlive,
                   completed, result, response>>

\* compile: write_text raises; it is outside the try, so the exception leaves
\* the "with" block (which removes the workspace) and then compile.
WriteSourceFails(exc) ==
    /\ pc = "acquired"
    /\ IF body[1].src.encodable THEN exc \in {"OSError", "FileNotFoundError"}
                                ELSE exc = "UnicodeEncodeError"
    /\ wsExists' = FALSE
    /\ files' = NoFiles
    /\ raised' = exc
    /\ outcome' = "write_failed"
    /\ pc' = "raised"
    /\ UNCHANGED <<call, shared, expired>>
    /\ UNCHANGED <<binary, body, srcWritten, procAlive, descAlive,
                   completed, result, response>>

\* compile: subprocess.run starts the compiler
Launch ==
    /\ pc = "written"
    /\ binary = "ok"
    /\ procAlive' = TRUE
    /\ pc' = "running"
    /\ UNCHANGED <<call, shared, expired>>
    /\ UNCHANGED <<binary, body, wsExists, srcWritten, files, descAlive,
                   completed, result, raised, outcome, response>>

\* the exception subprocess.run raises when the binary cannot be started
SpawnError(b) == IF b = "missing" THEN "FileNotFoundError" ELSE "PermissionError"

\* compile: subprocess.run cannot start the compiler; "except Exception"
\* builds the result
LaunchFails ==
    /\ pc = "written"
    /\ binary # "ok"
    /\ result' = Some(UnexpectedResult(SpawnError(binary)))
    /\ outcome' = "spawn_failed"
    /\ pc' = "assembled"
    /\ UNCHANGED <<call, shared, expired>>
    /\ UNCHANGED <<binary, body, wsExists, srcWritten, files, procAlive, descAlive,
                   completed, raised, response>>

\* the compiler writes (or rewrites) one of its dump files
ProcWriteDump(f, st) ==
    /\ pc = "running"
    /\ procAlive
    /\ files[f] # st
    /\ files' = [files EXCEPT ![f] = st]
    /\ UNCHANGED <<call, shared, expired>>
    /\ UNCHANGED <<pc, binary, body, wsExists, srcWritten, procAlive, descAlive,
                   completed, result, raised, outcome, response>>

\* the compiler starts a process of its own (assembler, linker)
ProcFork ==
    /\ pc = "running"
    /\ procAlive
    /\ ~descAlive
    /\ descAlive' = TRUE
    /\ UNCHANGED <<call, shared, expired>>
    /\ UNCHANGED <<pc, binary, body, wsExists, srcWritten, files, procAlive,
                   completed, result, raised, outcome, response>>

\* the descendant ends by itself
DescExit ==
    /\ descAlive
    /\ descAlive' = FALSE
    /\ UNCHANGED <<call, shared, expired>>
    /\ UNCHANGED <<pc, binary, body, wsExists, srcWritten, files, procAlive,
                   completed, result, raised, outcome, response>>

\* an exit after which a failed compilation is run again
ProcExitRetries(rc, out, err) ==
    /\ pc = "running"
    /\ procAlive
    /\ procAlive' = FALSE
    /\ completed' = Some([returncode |-> rc, stdout |-> out, stderr |-> err])
    /\ outcome' = "exited"
    /\ pc' = IF rc = 0 THEN "exited" ELSE "written"
    /\ UNCHANGED <<call, shared, expired>>
    /\ UNCHANGED <<binary, body, wsExists, srcWritten, files, descAlive,
                   result, raised, response>>

\* the compiler ends within the timeout; subprocess.run returns
ProcExit(rc, out, err) ==
    /\ pc = "running"
    /\ procAlive
    /\ procAlive' = FALSE
    /\ completed' = Some([returncode |-> rc, stdout |-> out, stderr |-> err])
    /\ outcome' = "exited"
    /\ pc' = "exited"
    /\ UNCHANGED <<call, shared, expired>>
    /\ UNCHANGED <<binary, body, wsExists, srcWritten, files, descAlive,
                   result, raised, response>>

\* the compiler ends within the timeout but its output is not UTF-8:
\* subprocess.run (text=True) raises and "except Exception" builds the result
ProcExitUndecodable ==
    /\ pc = "running"
    /\ procAlive
    /\ procAlive' = FALSE
    /\ result' = Some(UnexpectedResult("UnicodeDecodeError"))
    /\ outcome' = "capture_failed"
    /\ pc' = "assembled"
    /\ UNCHANGED <<call, shared, expired>>
    /\ UNCHANGED <<binary, body, wsExists, srcWritten, files, descAlive,
                   completed, raised, response>>

\* what subprocess.run's process.kill() leaves of the descendants
DescendantAfterKill(d) == d

\* what the compiler can have written to its pipes when it is stopped
PartialOutputs ==
    {[stdout |-> o, stderr |-> e] : o \in {<<>>, <<"o">>}, e \in {<<>>, <<"e">>}}

\* a timeout branch that hands on the output captured so far
TimeoutKeepsOutput(partial) ==
    /\ pc = "running"
    /\ procAlive
    /\ procAlive' = FALSE
    /\ descAlive' = DescendantAfterKill(descAlive)
    /\ expired' = Some(partial)
    /\ result' = Some([TimeoutResult(DefaultTimeout) EXCEPT !.stdout = partial.stdout,
                                                            !.stderr = partial.stderr])
    /\ outcome' = "timeout"
    /\ pc' = "assembled"
    /\ UNCHANGED <<call, shared>>
    /\ UNCHANGED <<binary, body, wsExists, srcWritten, files,
                   completed, raised, response>>

\* the timeout elapses: subprocess.run kills the compiler process and raises
\* TimeoutExpired, which carries the output captured so far;
\* "except subprocess.TimeoutExpired" builds the result without looking at it
Timeout(partial) ==
    /\ pc = "running"
    /\ procAlive
    /\ procAlive' = FALSE
    /\ descAlive' = DescendantAfterKill(descAlive)
    /\ expired' = Some(partial)
    /\ result' = Some(TimeoutResult(DefaultTimeout))
    /\ outcome' = "timeout"
    /\ pc' = "assembled"
    /\ UNCHANGED <<call, shared>>
    /\ UNCHANGED <<binary, body, wsExists, srcWritten, files,
                   completed, raised, response>>

\* compile: read the four dumps and build the result
Collect ==
    /\ pc = "exited"
    /\ result' = Some(CollectResult(completed[1], files))
    /\ pc' = "assembled"
    /\ UNCHANGED <<call, shared, expired>>
    /\ UNCHANGED <<binary, body, wsExists, srcWritten, files, procAlive, descAlive,
                   completed, raised, outcome, response>>

\* compile: the return leaves the "with" block, which removes the workspace
Release ==
    /\ pc = "assembled"
    /\ wsExists' = FALSE
    /\ srcWritten' = FALSE
    /\ files' = NoFiles
    /\ pc' = "returned"
    /\ UNCHANGED <<call, shared, expired>>
    /\ UNCHANGED <<binary, body, procAlive, descAlive,
                   completed, result, raised, outcome, response>>

\* compile_code: map the returned result to a response
Respond ==
    /\ pc = "returned"
    /\ response' = Some(RespondTo(result[1]))
    /\ pc' = "responded"
    /\ UNCHANGED <<call, shared, expired>>
    /\ UNCHANGED <<binary, body, wsExists, srcWritten, files, procAlive, descAlive,
                   completed, result, raised, outcome>>

\* compile_code: map the exception that left compile to a response
RespondRaised ==
    /\ pc = "raised"
    /\ response' = Some(RespondToException(raised))
    /\ pc' = "responded"
    /\ UNCHANGED <<call, shared, expired>>
    /\ UNCHANGED <<binary, body, wsExists, srcWritten, files, procAlive, descAlive,
                   completed, result, raised, outcome>>

\* the next request arrives; nothing of the served one is kept
NextRequest ==
    /\ pc = "responded"
    /\ pc' = "idle"
    /\ body' = <<>>
    /\ completed' = <<>>
    /\ result' = <<>>
    /\ raised' = "none"
    /\ outcome' = "none"
    /\ response' = <<>>
    /\ expired' = <<>>
    /\ UNCHANGED <<call, shared>>
    /\ UNCHANGED <<binary, wsExists, srcWritten, files, procAlive, descAlive>>

Next ==
    \/ Construct
    \/ ConstructFails
    \/ \E b \in BinaryStates : BinaryChanges(b)
    \/ \E b \in Bodies, status \in {400, 500} : ReceiveNotJson(b, status)
    \/ \E b \in Bodies : ReceiveInvalid(b)
    \/ \E b \in Bodies : ReceiveValid(b)
    \/ Acquire
    \/ \E exc \in {"OSError", "FileNotFoundError"} : AcquireFails(exc)
    \/ WriteSource
    \/ \E exc \in {"OSError", "FileNotFoundError", "UnicodeEncodeError"} : WriteSourceFails(exc)
    \/ Launch
    \/ LaunchFails
    \/ \E f \in DumpFiles : \E st \in FileStates(f) : ProcWriteDump(f, st)
    \/ ProcFork
    \/ DescExit
    \/ \E rc \in ReturnCodes, out \in StdoutTexts, err \in StderrTexts : ProcExit(rc, out, err)
    \/ ProcExitUndecodable
    \/ \E partial \in PartialOutputs : Timeout(partial)
    \/ Collect
    \/ Release
    \/ Respond
    \/ RespondRaised
    \/ NextRequest

Spec == Init /\ [][Next]_vars

\* A step of compile itself: straight-line code that waits for nothing.
CompileStep ==
    \/ Acquire
    \/ \E exc \in {"OSError", "FileNotFoundError"} : AcquireFails(exc)
    \/ WriteSource
    \/ \E exc \in {"OSError", "FileNotFoundError", "UnicodeEncodeError"} : WriteSourceFails(exc)
    \/ Launch
    \/ LaunchFails
    \/ Collect
    \/ Release

\* a run of the compiler on which no timeout is set
TimerOff == pc = "running" /\ ~procAlive /\ UNCHANGED vars

\* subprocess.run(..., timeout=timeout): the clock runs while the process does
TimerFires == \E partial \in PartialOutputs : Timeout(partial)

\* The code of compile goes on whenever it can and the timeout fires if the
\* process is still running; nothing makes the compiler exit, write or fork.
\* Whether an invocation ends does not depend on what the compiler prints or
\* on the text of its dumps: one readable and one undecodable content per
\* file, two exit codes and two stderr texts.
LiveFileStates(f) ==
    {Undecodable, TextFile(IF f \in JsonDumps THEN "{\"t\":1}" ELSE "mov")}
LiveExitCodes == {0, 1}
LiveStderrTexts == {<<>>, <<"e">>}

NextLive ==
    \/ Construct
    \/ ConstructFails
    \/ \E b \in BinaryStates : BinaryChanges(b)
    \/ \E b \in Bodies, status \in {400, 500} : ReceiveNotJson(b, status)
    \/ \E b \in Bodies : ReceiveInvalid(b)
    \/ \E b \in Bodies : ReceiveValid(b)
    \/ CompileStep
    \/ \E f \in DumpFiles : \E st \in LiveFileStates(f) : ProcWriteDump(f, st)
    \/ ProcFork
    \/ DescExit
    \/ \E rc \in LiveExitCodes, err \in LiveStderrTexts : ProcExit(rc, <<>>, err)
    \/ ProcExitUndecodable
    \/ TimerFires
    \/ Respond
    \/ RespondRaised
    \/ NextRequest

SpecLive == Init /\ [][NextLive]_vars /\ WF_vars(CompileStep) /\ WF_vars(TimerFires)

\* ======================================================= functions on their own
\* The one-request model stands still while a function is applied on its own
\* or while invocations run side by side.
MainUnused ==
    /\ pc = "unconstructed"
    /\ binary = "ok"
    /\ body = <<>>
    /\ wsExists = FALSE
    /\ srcWritten = FALSE
    /\ files = NoFiles
    /\ procAlive = FALSE
    /\ descAlive = FALSE
    /\ completed = <<>>
    /\ result = <<>>
    /\ raised = "none"
    /\ outcome = "none"
    /\ response = <<>>
    /\ expired = <<>>

MaxParseLen == 7
MaxFnStderrLen == 3

\* stderr texts given to _parse_errors
ParsePieces == {"a", "b", " ", "\n"}
ExampleStderr == <<"a", "\n", "b", "\n", "\n", "c", "\n">>
ParseTexts == SeqsUpTo(ParsePieces, MaxParseLen) \cup {ExampleStderr}

\* the environment of the server process: each variable is unset or set
EnvNames == {"TMPDIR", "PATH", "HOME", "LANG"}
EnvValues == {"/tmp/t", "/usr"}
Environs == UNION {[names -> EnvValues] : names \in SUBSET EnvNames}

\* a launch that hands the parent environment over as it is
LaunchEnvKeepsTmpdir(environ) == [parent |-> environ, child |-> environ]

\* compile: "env = os.environ.copy(); if 'TMPDIR' in env: del env['TMPDIR']";
\* gives os.environ after the statements and the env passed to subprocess.run
LaunchEnv(environ) ==
    [parent |-> environ,
     child |-> [v \in DOMAIN environ \ {"TMPDIR"} |-> environ[v]]]

\* A path is the sequence of its components; "/" first makes it absolute.
TempDirs == {<<"/", "tmp", "tmpa">>, <<"/", "tmp", "tmpb">>}
Filenames ==
    {<<"input.c">>, <<"tokens.json">>, <<"output">>, <<"sub", "input.c">>,
     <<"..", "input.c">>, <<"/", "srv", "input.c">>}

\* pathlib: temp_path / name
Join(p, q) == IF q # <<>> /\ q[1] = "/" THEN q ELSE p \o q

\* compile: the file paths of a workspace
WorkspacePaths(tempDir, filename) ==
    [source_file |-> Join(tempDir, filename),
     tokens_file |-> Join(tempDir, <<"tokens.json">>),
     ast_file |-> Join(tempDir, <<"ast.json">>),
     assembly_file |-> Join(tempDir, <<"assembly.s">>),
     hex_file |-> Join(tempDir, <<"executable.hex">>),
     output_exe |-> Join(tempDir, <<"output">>)]

\* compile: "cmd = [...]" and the paths the four reads are given
BuildCommand(tempDir, filename) ==
    LET p == WorkspacePaths(tempDir, filename)
    IN  [cmd |-> << <<CompilerPath>>, p.source_file,
                    <<"--dump-tokens">>, p.tokens_file,
                    <<"--dump-ast">>, p.ast_file,
                    <<"--dump-asm">>, p.assembly_file,
                    <<"--dump-hex">>, p.hex_file,
                    <<"-o">>, p.output_exe >>,
         reads |-> <<p.tokens_file, p.ast_file, p.assembly_file, p.hex_file>>]

\* the results compile can hand to compile_code
FnResults ==
    {ExitResult([returncode |-> rc, stdout |-> <<>>, stderr |-> err],
                tok, None, None, None) :
        rc \in ReturnCodes, err \in SeqsUpTo(ErrPieces, MaxFnStderrLen),
        tok \in {None, Some([t |-> 1])}}
    \cup {TimeoutResult(DefaultTimeout)}
    \cup {UnexpectedResult(exc) : exc \in {"FileNotFoundError", "PermissionError",
                                            "UnicodeDecodeError"}}

InitFn ==
    /\ MainUnused
    /\ NoShared
    /\ ret = <<>>
    /\ \/ fn = "_parse_errors" /\ arg \in ParseTexts
       \/ fn = "launch_env" /\ arg \in Environs
       \/ fn = "build_command" /\ arg \in TempDirs \X Filenames
       \/ fn = "respond_to" /\ arg \in FnResults

ApplyParseErrors ==
    /\ fn = "_parse_errors"
    /\ ret = <<>>
    /\ ret' = Some(ParseErrors(arg))
    /\ UNCHANGED <<main, shared, fn, arg>>

ApplyLaunchEnv ==
    /\ fn = "launch_env"
    /\ ret = <<>>
    /\ ret' = Some(LaunchEnv(arg))
    /\ UNCHANGED <<main, shared, fn, arg>>

ApplyBuildCommand ==
    /\ fn = "build_command"
    /\ ret = <<>>
    /\ ret' = Some(BuildCommand(arg[1], arg[2]))
    /\ UNCHANGED <<main, shared, fn, arg>>

ApplyRespondTo ==
    /\ fn = "respond_to"
    /\ ret = <<>>
    /\ ret' = Some(RespondTo(arg))
    /\ UNCHANGED <<main, shared, fn, arg>>

NextFn ==
    \/ ApplyParseErrors
    \/ ApplyLaunchEnv
    \/ ApplyBuildCommand
    \/ ApplyRespondTo

SpecFn == InitFn /\ [][NextFn]_vars

\* ================================================== invocations side by side
\* Requests are served by threads that share the one module-level invoker, so
\* calls of compile overlap in any order.  Each call has its own locals; the
\* file system and the compiler binary are what the calls share.
MaxDirNames == 2

IsoIds == {1, 2}
IsoSources == {"int a;", "int b;"}
\* the names mkdtemp can draw
DirNames == 1..MaxDirNames
PipelineOrder == <<"tokens.json", "ast.json", "assembly.s", "executable.hex">>

\* A deterministic compiler: the exit code and how far the pipeline gets (the
\* dumps of the stages reached are written, in order) depend on the source
\* text alone, and so does the content of every dump.
IsoBehaviours == [rc : {0, 1}, stage : 0..Len(PipelineOrder)]
DumpText(s, f) ==
    IF f \in JsonDumps
    THEN (IF s = "int a;" THEN "{\"t\":1}" ELSE "{\"t\":2}")
    ELSE (IF s = "int a;" THEN "mov a" ELSE "mov b")
DiagnosticsOf(s, rc) == IF rc = 0 THEN <<>> ELSE <<"e">>

\* the locals of a call of compile that has not started
IdleInvocation ==
    [pc |-> "idle", src |-> "", ws |-> 0, psrc |-> "", step |-> 0,
     completed |-> <<>>, result |-> <<>>, outcome |-> "none", after |-> {}]
\* TemporaryDirectory(): a new, empty directory
NewDir == [source |-> None, files |-> NoFiles]

InitIso ==
    /\ MainUnused
    /\ NoCall
    /\ inv = [i \in IsoIds |-> IdleInvocation]
    /\ dirs = [d \in DirNames |-> None]
    /\ beh \in [IsoSources -> IsoBehaviours]
    /\ invoker = [compiler_path |-> CompilerPath]

\* a workspace creation that takes a directory name without looking
IsoAcquireShared(i, s, d) ==
    /\ inv[i].pc = "idle"
    /\ dirs' = [dirs EXCEPT ![d] = IF dirs[d] = None THEN Some(NewDir) ELSE dirs[d]]
    /\ inv' = [inv EXCEPT ![i] =
                  [@ EXCEPT !.pc = "acquired", !.src = s, !.ws = d,
                            !.after = {j \in IsoIds : inv[j].pc = "returned"}]]
    /\ UNCHANGED <<main, call, beh, invoker>>

\* compile is called with source s; mkdtemp creates a directory under a name
\* that does not exist
IsoAcquire(i, s, d) ==
    /\ inv[i].pc = "idle"
    /\ dirs[d] = None
    /\ dirs' = [dirs EXCEPT ![d] = Some(NewDir)]
    /\ inv' = [inv EXCEPT ![i] =
                  [@ EXCEPT !.pc = "acquired", !.src = s, !.ws = d,
                            !.after = {j \in IsoIds : inv[j].pc = "returned"}]]
    /\ UNCHANGED <<main, call, beh, invoker>>

\* compile: source_file.write_text(source_code)
IsoWriteSource(i) ==
    /\ inv[i].pc = "acquired"
    /\ dirs[inv[i].ws] # None
    /\ dirs' = [dirs EXCEPT ![inv[i].ws] = Some([@[1] EXCEPT !.source = Some(inv[i].src)])]
    /\ inv' = [inv EXCEPT ![i].pc = "written"]
    /\ UNCHANGED <<main, call, beh, invoker>>

\* compile: subprocess.run starts the binary at self.compiler_path, which
\* reads the source file named on its command line
IsoLaunch(i) ==
    /\ inv[i].pc = "written"
    /\ invoker.compiler_path = CompilerPath
    /\ dirs[inv[i].ws] # None
    /\ dirs[inv[i].ws][1].source # None
    /\ inv' = [inv EXCEPT ![i] =
                  [@ EXCEPT !.pc = "running", !.psrc = dirs[inv[i].ws][1].source[1],
                            !.step = 0]]
    /\ UNCHANGED <<main, call, dirs, beh, invoker>>

\* the compiler writes the dump of its next stage at the path it was given
IsoProcWrite(i) ==
    /\ inv[i].pc = "running"
    /\ inv[i].step < beh[inv[i].psrc].stage
    /\ dirs[inv[i].ws] # None
    /\ LET f == PipelineOrder[inv[i].step + 1]
       IN  dirs' = [dirs EXCEPT ![inv[i].ws] =
                       Some([@[1] EXCEPT !.files[f] = TextFile(DumpText(inv[i].psrc, f))])]
    /\ inv' = [inv EXCEPT ![i].step = @ + 1]
    /\ UNCHANGED <<main, call, beh, invoker>>

\* the compiler exits; subprocess.run returns the CompletedProcess
IsoProcExit(i) ==
    /\ inv[i].pc = "running"
    /\ inv[i].step = beh[inv[i].psrc].stage
    /\ inv' = [inv EXCEPT ![i] =
                  [@ EXCEPT !.pc = "exited", !.outcome = "exited",
                            !.completed =
                                Some([returncode |-> beh[inv[i].psrc].rc,
                                      stdout |-> <<>>,
                                      stderr |-> DiagnosticsOf(inv[i].psrc,
                                                               beh[inv[i].psrc].rc)])]]
    /\ UNCHANGED <<main, call, dirs, beh, invoker>>

\* a timeout after which the invoker gives up its compiler
IsoTimeoutDisables(i) ==
    /\ inv[i].pc = "running"
    /\ inv' = [inv EXCEPT ![i] =
                  [@ EXCEPT !.pc = "assembled", !.outcome = "timeout",
                            !.result = Some(TimeoutResult(DefaultTimeout))]]
    /\ invoker' = [invoker EXCEPT !.compiler_path = ""]
    /\ UNCHANGED <<main, call, dirs, beh>>

\* the timeout expires while the compiler runs: how long a run takes is not
\* decided by the source text
IsoTimeout(i) ==
    /\ inv[i].pc = "running"
    /\ inv' = [inv EXCEPT ![i] =
                  [@ EXCEPT !.pc = "assembled", !.outcome = "timeout",
                            !.result = Some(TimeoutResult(DefaultTimeout))]]
    /\ UNCHANGED <<main, call, dirs, beh, invoker>>

\* a collection that does not wait for the compiler to end
IsoCollectEarly(i) ==
    /\ inv[i].pc \in {"running", "exited"}
    /\ dirs[inv[i].ws] # None
    /\ inv' = [inv EXCEPT ![i] =
                  [@ EXCEPT !.pc = "assembled", !.outcome = "exited",
                            !.result =
                                Some(CollectResult(
                                    [returncode |-> beh[inv[i].psrc].rc, stdout |-> <<>>,
                                     stderr |-> DiagnosticsOf(inv[i].psrc,
                                                              beh[inv[i].psrc].rc)],
                                    dirs[inv[i].ws][1].files))]]
    /\ UNCHANGED <<main, call, dirs, beh, invoker>>

\* compile: read the four dumps of the workspace and build the result
IsoCollect(i) ==
    /\ inv[i].pc = "exited"
    /\ dirs[inv[i].ws] # None
    /\ inv' = [inv EXCEPT ![i] =
                  [@ EXCEPT !.pc = "assembled",
                            !.result = Some(CollectResult(inv[i].completed[1],
                                                          dirs[inv[i].ws][1].files))]]
    /\ UNCHANGED <<main, call, dirs, beh, invoker>>

\* compile: the return leaves the "with" block, which removes the workspace
IsoRelease(i) ==
    /\ inv[i].pc = "assembled"
    /\ dirs' = [dirs EXCEPT ![inv[i].ws] = None]
    /\ inv' = [inv EXCEPT ![i].pc = "returned"]
    /\ UNCHANGED <<main, call, beh, invoker>>

NextIso ==
    \E i \in IsoIds :
        \/ \E s \in IsoSources, d \in DirNames : IsoAcquire(i, s, d)
        \/ IsoWriteSource(i)
        \/ IsoLaunch(i)
        \/ IsoProcWrite(i)
        \/ IsoProcExit(i)
        \/ IsoTimeout(i)
        \/ IsoCollect(i)
        \/ IsoRelease(i)

SpecIso == InitIso /\ [][NextIso]_vars

\* ================================================================== claims
Called == pc \in {"assembled", "returned", "responded"} /\ result # <<>>
Left == pc \in {"returned", "raised", "responded", "idle"}
DumpOk(f) ==
    /\ files[f].st = "ok"
    /\ f \in JsonDumps => files[f].text # "{\"t\":"
DumpValue(f) ==
    IF ~DumpOk(f) THEN None
    ELSE IF f \in TextDumps THEN Some(files[f].text)
    ELSE IF files[f].text = "null" THEN None
    ELSE Some([t |-> 1])

\* C1: once compile has returned or raised, whatever the outcome, the
\* workspace directory of the invocation no longer exists.
C1_WorkspaceRemoved == Left => ~wsExists /\ ~srcWritten /\ files = NoFiles

\* the write of the source failed after the workspace had been created, and
\* compile has raised
C1_Witness == pc = "raised" /\ outcome = "write_failed" /\ ~wsExists

C3_PartialResult ==
    pc = "assembled" /\ outcome = "exited" =>
        /\ result[1].tokens = DumpValue("tokens.json")
        /\ result[1].ast = DumpValue("ast.json")
        /\ result[1].assembly = DumpValue("assembly.s")
        /\ result[1].hex = DumpValue("executable.hex")

\* C4: on a timeout the result has success false, no artifact even when dump
\* files were written, the sentinel return code and exactly one message, which
\* names the timeout.
C4_TimeoutResult ==
    pc = "assembled" /\ outcome = "timeout" =>
        /\ ~result[1].success
        /\ result[1].tokens = None /\ result[1].ast = None
        /\ result[1].assembly = None /\ result[1].hex = None
        /\ result[1].return_code = -1
        /\ Len(result[1].errors) = 1
        /\ \E j \in 1..Len(result[1].errors[1]) : result[1].errors[1][j] = "timeout"

\* the timeout elapsed after the compiler had written its tokens dump
C4_Witness ==
    /\ pc = "assembled"
    /\ outcome = "timeout"
    /\ files["tokens.json"] = TextFile("{\"t\":1}")
    /\ result[1].tokens = None

\* C5: no result built from a process that ran and ended, by an exit or by a
\* signal, carries the sentinel return code.
C5_SentinelOnlyForFaults ==
    Called /\ outcome = "exited" => result[1].return_code # -1

\* C6: once the harness is constructed compile never raises; every fault of
\* an invocation is encoded in the returned result.
C6_NeverRaises == raised = "none" /\ pc # "raised"

\* C7: after a process exit, a dump that is missing, unparsable or unreadable
\* costs only its own artifact field: the other artifacts, success, the
\* return code, the errors and the captured output are what the process gave.
C7_OnlyOwnField ==
    pc = "assembled" /\ outcome = "exited" =>
        /\ result[1].success = (completed[1].returncode = 0)
        /\ result[1].return_code = completed[1].returncode
        /\ result[1].stdout = completed[1].stdout
        /\ result[1].stderr = completed[1].stderr
        /\ (Strip(completed[1].stderr) = <<>>) = (result[1].errors = <<>>)
        /\ \A f \in JsonDumps : DumpOk(f) =>
               (IF f = "tokens.json" THEN result[1].tokens ELSE result[1].ast) = DumpValue(f)
        /\ \A f \in TextDumps : DumpOk(f) =>
               (IF f = "assembly.s" THEN result[1].assembly ELSE result[1].hex) = DumpValue(f)

\* C8: a compile request is answered 408 exactly when the invocation timed out.
C8_Status408IffTimeout ==
    pc = "responded" => (response[1].status = 408 <=> outcome = "timeout")

\* C9: a validated request is answered 200 when the result has success true,
\* 400 when the compiler ran and exited nonzero, and 500 when the compiler
\* binary cannot be found or executed.
C9_StatusByOutcome ==
    pc = "responded" /\ outcome # "rejected" =>
        /\ (result # <<>> /\ result[1].success) => response[1].status = 200
        /\ (outcome = "exited" /\ completed[1].returncode > 0) => response[1].status = 400
        /\ outcome = "spawn_failed" => response[1].status = 500

\* C10: after a timeout, once compile has returned, neither the compiler
\* process nor any descendant it started is still running.
C10_NoProcessLeft ==
    pc \in {"returned", "responded"} /\ outcome = "timeout" => ~procAlive /\ ~descAlive

C16_InvalidRejected ==
    (/\ pc = "responded"
     /\ \/ ~body[1].json
        \/ body[1].field # "source"
        \/ body[1].src.len = 0
        \/ body[1].src.blank
        \/ body[1].src.len > MAX_SOURCE_SIZE)
    => /\ response[1].status = 400
       /\ ~response[1].success
       /\ result = <<>> /\ raised = "none" /\ completed = <<>>

\* C17: a JSON body that carries a valid program in the field "code" is
\* answered 200 or 201.
C17_CodeFieldAccepted ==
    (/\ pc = "responded"
     /\ body[1].json
     /\ body[1].field = "code"
     /\ body[1].src.len > 0 /\ body[1].src.len <= MAX_SOURCE_SIZE
     /\ ~body[1].src.blank /\ body[1].src.encodable)
    => response[1].status \in {200, 201}

\* C18: for a failed compilation that is not a timeout, every artifact of the
\* result is in the response body with the same content.
C18_ArtifactsForwarded ==
    (/\ pc = "responded"
     /\ result # <<>>
     /\ ~result[1].success
     /\ outcome # "timeout")
    => /\ response[1].tokens = result[1].tokens
       /\ response[1].ast = result[1].ast
       /\ response[1].assembly = result[1].assembly
       /\ response[1].hexdump = result[1].hex

\* ---- the lines of a text, said without splitting it
LineStarts(t) == {1} \cup {i + 1 : i \in {k \in 1..Len(t) : t[k] = "\n"}}
LineEnd(t, a) ==
    IF \E i \in a..Len(t) : t[i] = "\n"
    THEN (CHOOSE i \in a..Len(t) : t[i] = "\n" /\ \A j \in a..(i - 1) : t[j] # "\n") - 1
    ELSE Len(t)
Ink(t, a) == {i \in a..LineEnd(t, a) : t[i] \notin {" ", "\n"}}
Trimmed(t, a) ==
    SubSeq(t, CHOOSE i \in Ink(t, a) : \A j \in Ink(t, a) : i <= j,
              CHOOSE i \in Ink(t, a) : \A j \in Ink(t, a) : i >= j)
InkedLines(t) == {a \in LineStarts(t) : Ink(t, a) # {}}
IsTrimmedLines(t, r) ==
    /\ Len(r) = Cardinality(InkedLines(t))
    /\ \A a \in InkedLines(t) :
          r[Cardinality({b \in InkedLines(t) : b < a}) + 1] = Trimmed(t, a)

\* C12: for every stderr text _parse_errors returns its lines in their order,
\* each trimmed of surrounding whitespace, without the lines that are empty
\* after trimming; the list is empty for empty or whitespace-only text, and
\* "a\nb\n\nc\n" gives ["a", "b", "c"].
C12_ParseErrors ==
    (fn = "_parse_errors" /\ ret # <<>>)
    => /\ IsTrimmedLines(arg, ret[1])
       /\ (\A i \in 1..Len(arg) : arg[i] \in {" ", "\n"}) => ret[1] = <<>>
       /\ arg = ExampleStderr => ret[1] = << <<"a">>, <<"b">>, <<"c">> >>

C12_Witness ==
    /\ fn = "_parse_errors"
    /\ arg = <<" ", "a", " ", "\n", "\n", "b", " ">>
    /\ ret = Some(<< <<"a">>, <<"b">> >>)

\* C13: the environment handed to the compiler process has no TMPDIR and is
\* otherwise the parent environment (every other variable with the same
\* value, none added), and the parent environment is what it was.
C13_ChildEnvironment ==
    (fn = "launch_env" /\ ret # <<>>)
    => /\ "TMPDIR" \notin DOMAIN ret[1].child
       /\ \A v \in EnvNames \ {"TMPDIR"} :
             /\ v \in DOMAIN ret[1].child <=> v \in DOMAIN arg
             /\ v \in DOMAIN arg => ret[1].child[v] = arg[v]
       /\ DOMAIN ret[1].child \subseteq EnvNames
       /\ ret[1].parent = arg

C13_Witness ==
    /\ fn = "launch_env"
    /\ ret # <<>>
    /\ DOMAIN arg = {"TMPDIR", "PATH"}
    /\ DOMAIN ret[1].child = {"PATH"}
    /\ ret[1].child["PATH"] = arg["PATH"]

\* ---- a path inside a directory: below it, with no step back up
Inside(p, dir) ==
    /\ Len(p) > Len(dir)
    /\ SubSeq(p, 1, Len(dir)) = dir
    /\ \A i \in 1..Len(p) : p[i] # ".."

\* C14: the command is the compiler path, the source path, --dump-tokens,
\* --dump-ast, --dump-asm and --dump-hex each followed by its path, and -o
\* followed by the output path, in that order; every path is inside the
\* workspace of the invocation, and the dump files read back are the paths
\* given to the flags.
C14_CommandInsideWorkspace ==
    (fn = "build_command" /\ ret # <<>>)
    => LET cmd == ret[1].cmd
           reads == ret[1].reads
       IN  /\ Len(cmd) = 12
           /\ cmd[1] = <<CompilerPath>>
           /\ cmd[3] = <<"--dump-tokens">> /\ cmd[5] = <<"--dump-ast">>
           /\ cmd[7] = <<"--dump-asm">> /\ cmd[9] = <<"--dump-hex">>
           /\ cmd[11] = <<"-o">>
           /\ \A i \in {2, 4, 6, 8, 10, 12} : Inside(cmd[i], arg[1])
           /\ reads = <<cmd[4], cmd[6], cmd[8], cmd[10]>>

\* C19: a failed invocation with a non-empty error list exposes the first
\* entry of the list as the primary error message, the list in the result
\* being all the error lines of stderr in their order; with an empty list
\* the message is a fixed fallback.
C19_PrimaryError ==
    (fn = "respond_to" /\ ret # <<>> /\ ~arg.success)
    => /\ arg.errors # <<>> => ret[1].error = Some(arg.errors[1])
       /\ arg.errors = <<>> => ret[1].error = Some(<<"Compilation failed">>)
       /\ arg.return_code # Sentinel => IsTrimmedLines(arg.stderr, arg.errors)

C19_Witness ==
    /\ fn = "respond_to"
    /\ ret # <<>>
    /\ ~arg.success
    /\ Len(arg.errors) = 2
    /\ arg.errors[1] # arg.errors[2]
    /\ ret[1].status = 400
    /\ ret[1].error = Some(arg.errors[1])

\* ---- two calls of compile
Holds(i) == inv[i].pc \in {"acquired", "written", "running", "exited", "assembled"}
FromSource(artifact, s, f) ==
    artifact = None
    \/ artifact = (IF f \in JsonDumps THEN JsonLoad(DumpText(s, f)).val
                                       ELSE Some(DumpText(s, f)))
SameAnswer(i, j) ==
    /\ inv[i].result[1].tokens = inv[j].result[1].tokens
    /\ inv[i].result[1].ast = inv[j].result[1].ast
    /\ inv[i].result[1].success = inv[j].result[1].success
Sequential(i, j) ==
    /\ inv[i].pc = "returned" /\ inv[j].pc = "returned"
    /\ i \in inv[j].after
    /\ inv[i].src = inv[j].src

\* C11: in every interleaving of two invocations, the two never hold the same
\* workspace directory, and every artifact in the result of an invocation is
\* what the compiler wrote from that invocation's own source.
C11_DirectoryIsolation ==
    /\ \A i, j \in IsoIds : i # j /\ Holds(i) /\ Holds(j) => inv[i].ws # inv[j].ws
    /\ \A i \in IsoIds :
          inv[i].result # <<>>
          => /\ FromSource(inv[i].result[1].tokens, inv[i].src, "tokens.json")
             /\ FromSource(inv[i].result[1].ast, inv[i].src, "ast.json")
             /\ FromSource(inv[i].result[1].assembly, inv[i].src, "assembly.s")
             /\ FromSource(inv[i].result[1].hex, inv[i].src, "executable.hex")

C11_Witness ==
    /\ inv[1].pc = "returned" /\ inv[2].pc = "returned"
    /\ inv[1].after = {} /\ inv[2].after = {}
    /\ inv[1].src # inv[2].src
    /\ inv[1].ws # inv[2].ws
    /\ inv[1].result[1].hex = Some(DumpText(inv[1].src, "executable.hex"))
    /\ inv[2].result[1].hex = Some(DumpText(inv[2].src, "executable.hex"))

\* C20 as stated: two invocations with the same source, one after the other,
\* return the same tokens, ast and success.
C20_Repeatable ==
    \A i, j \in IsoIds : Sequential(i, j) => SameAnswer(i, j)

\* C20: two invocations with the same source, one after the other, return the
\* same tokens, ast and success under any directory names, provided the
\* timeout expired in both or in neither.
C20_RepeatableSameEnding ==
    \A i, j \in IsoIds :
        Sequential(i, j) /\ inv[i].outcome = inv[j].outcome => SameAnswer(i, j)

C20_Witness ==
    /\ Sequential(1, 2)
    /\ inv[1].outcome = "exited" /\ inv[2].outcome = "exited"
    /\ inv[1].ws # inv[2].ws
    /\ inv[1].result[1].tokens # None
    /\ inv[1].result[1].ast = None
    /\ SameAnswer(1, 2)

\* ---- the order of the steps of one invocation
SourceBeforeLaunch == [][~procAlive /\ procAlive' => srcWritten /\ wsExists]_vars
ReadAfterEnd ==
    [][pc = "exited" /\ pc' = "assembled" => ~procAlive /\ wsExists /\ completed # <<>>]_vars
AssembledBeforeRelease == [][wsExists /\ ~wsExists' => result # <<>>]_vars
ReleaseIsTerminal ==
    [][~wsExists /\ pc \in {"returned", "raised", "responded"}
          => ~wsExists' /\ files' = files /\ srcWritten' = srcWritten /\ ~procAlive']_vars
ForwardOnly ==
    [][/\ pc' = "acquired" => pc \in {"validated", "acquired"}
       /\ pc' = "written" => pc \in {"acquired", "written"}
       /\ pc' = "running" => pc \in {"written", "running"}
       /\ pc' = "exited" => pc \in {"running", "exited"}
       /\ pc' = "assembled" => pc \in {"written", "running", "exited", "assembled"}
       /\ pc' = "returned" => pc \in {"assembled", "returned"}]_vars

\* C21: an invocation goes forward through acquiring the workspace, running
\* the process, its exit or timeout, collecting, assembling and releasing:
\* the source file is written before the launch, the dumps are read only
\* after the process has ended, the result is assembled before the workspace
\* is released, and nothing touches the workspace after the release.
C21_StateOrder ==
    /\ ForwardOnly
    /\ SourceBeforeLaunch
    /\ ReadAfterEnd
    /\ AssembledBeforeRelease
    /\ ReleaseIsTerminal

\* C22: every invocation ends, whether the compiler exits by itself or never
\* does: compile leaves with the workspace released and no compiler process
\* running; and the running of the compiler is the only place where compile
\* can wait: everywhere else its next step can be taken at once.
C22_Terminates ==
    /\ (pc = "validated") ~> (pc \in {"returned", "raised"} /\ ~wsExists /\ ~procAlive)
    /\ [](pc \in {"validated", "acquired", "written", "exited", "assembled"}
             => ENABLED CompileStep)

C22_Witness ==
    /\ pc = "returned"
    /\ outcome = "timeout"
    /\ expired # <<>>
    /\ ~wsExists
    /\ ~procAlive

\* C23: an invocation launches the compiler at most once: a launch happens
\* only on the way from the written source to the running process, nothing
\* leads back to that point after a timeout, a launch failure or an exit, and
\* a running process ends only by itself or by the timeout.
C23_SingleLaunch ==
    /\ [][~procAlive /\ procAlive' => pc = "written" /\ pc' = "running" /\ outcome = "none"]_vars
    /\ [][pc' = "written" => pc \in {"acquired", "written"}]_vars
    /\ [][outcome # "none" => ~(~procAlive /\ procAlive') /\ (outcome' = outcome \/ pc' = "idle")]_vars
    /\ [][procAlive /\ ~procAlive' => outcome' \in {"exited", "capture_failed", "timeout"}]_vars

C23_Witness ==
    /\ pc = "responded"
    /\ outcome = "exited"
    /\ completed # <<>>
    /\ completed[1].returncode = 1
    /\ ~procAlive

\* C24: for every filename the source file is a child of the workspace of the
\* invocation, at a path that is none of the four dump paths nor the output
\* path.
C24_SourceFileApart ==
    (fn = "build_command" /\ ret # <<>>)
    => LET cmd == ret[1].cmd
       IN  /\ Inside(cmd[2], arg[1])
           /\ Len(cmd[2]) = Len(arg[1]) + 1
           /\ cmd[2] \notin {cmd[4], cmd[6], cmd[8], cmd[10], cmd[12]}

\* ---- what an invoker that has served nothing returns for a source
StageOf(f) == CHOOSE k \in 1..Len(PipelineOrder) : PipelineOrder[k] = f
FreshFiles(s) ==
    [f \in DumpFiles |-> IF StageOf(f) <= beh[s].stage THEN TextFile(DumpText(s, f))
                                                       ELSE Absent]
FreshResult(s, ending) ==
    IF ending = "timeout" THEN TimeoutResult(DefaultTimeout)
    ELSE CollectResult([returncode |-> beh[s].rc, stdout |-> <<>>,
                        stderr |-> DiagnosticsOf(s, beh[s].rc)],
                       FreshFiles(s))

\* C25: compile leaves the fields of the invoker as the constructor set them,
\* and whatever invocations came before or run beside it, the result of an
\* invocation is the one an invoker that has served nothing returns for the
\* same source, compiler behaviour and ending.
C25_NoCarriedState ==
    /\ invoker = [compiler_path |-> CompilerPath]
    /\ \A i \in IsoIds :
          inv[i].result # <<>> => inv[i].result[1] = FreshResult(inv[i].src, inv[i].outcome)

C25_Witness ==
    /\ inv[1].pc = "returned" /\ inv[2].pc = "returned"
    /\ 1 \in inv[2].after
    /\ inv[1].outcome = "timeout"
    /\ inv[2].outcome = "exited"
    /\ inv[2].ws = inv[1].ws
    /\ inv[2].src # inv[1].src
    /\ inv[2].result[1].success
    /\ inv[2].result[1].hex # None

\* C26: whenever the compiler process exits, with any exit code, the error
\* list of the result is _parse_errors of the captured stderr and stdout and
\* stderr are returned as captured; so the list is empty exactly when stderr
\* has no non-blank line, whatever success is.
C26_ErrorsFromStderr ==
    (outcome = "exited" /\ result # <<>>)
    => /\ result[1].errors = ParseErrors(completed[1].stderr)
       /\ result[1].stdout = completed[1].stdout
       /\ result[1].stderr = completed[1].stderr
       /\ result[1].errors = <<>> <=> InkedLines(completed[1].stderr) = {}

\* C27: on a timeout the result has empty stdout and stderr whatever the
\* compiler had written before it was stopped, and so have the logs of the
\* response.
C27_TimeoutOutputDropped ==
    (outcome = "timeout" /\ result # <<>>)
    => /\ expired # <<>>
       /\ result[1].stdout = <<>> /\ result[1].stderr = <<>>
       /\ response # <<>> => response[1].stdout = <<>> /\ response[1].stderr = <<>>

C27_Witness ==
    /\ pc = "responded"
    /\ outcome = "timeout"
    /\ expired = Some([stdout |-> <<"o">>, stderr |-> <<"e">>])
    /\ result[1].stderr = <<>>
    /\ response[1].stdout = <<>>

====
